---- MODULE Spec2Model ----
(***************************************************************************)
(* Model of torch/distributed/_mesh_layout.py: the _MeshLayout value type  *)
(* (a tree of sizes paired with a tree of strides), its construction and   *)
(* its operations __getitem__, coalesce, composition, complement,          *)
(* member_ranks, global_ranks, check_non_overlap and to_remapping_tensor.  *)
(*                                                                         *)
(* A layout is immutable, so the state is the layout under test together   *)
(* with the record of the last call made on it: its name, its argument,    *)
(* and what it returned or raised.  The operations are pure, so a          *)
(* behaviour is the construction of a layout followed by one call on it.   *)
(***************************************************************************)
EXTENDS Integers, Sequences, FiniteSets, TLC

\* ------------------------------------------------------------------ bounds
MaxDims == 2
MaxSize == 2
MaxStride == 4
MaxWorld == 8

\* ------------------------------------------------------------- IntTuple
\* An IntTuple is an int or a tuple of IntTuples.  Both variants are records
\* with the same fields so that any two of them can be compared.
Int_(n) == [tag |-> "int", val |-> n, kids |-> <<>>]
Tuple_(ks) == [tag |-> "tuple", val |-> 0, kids |-> ks]
None_ == [tag |-> "none", val |-> 0, kids |-> <<>>]

is_int(t) == t.tag = "int"
is_tuple(t) == t.tag = "tuple"

\* The single element of a one-element set.  The({e(x) : x \in {v}}) binds x
\* to the value of v once, however often e uses it.
The(S) == CHOOSE x \in S : TRUE

RECURSIVE ConcatAll(_)
ConcatAll(ss) == IF ss = <<>> THEN <<>> ELSE Head(ss) \o ConcatAll(Tail(ss))

\* flatten: the leaves of an IntTuple in in-order traversal; an int gives a
\* one-element sequence.
RECURSIVE flatten(_)
flatten(t) ==
    IF is_tuple(t)
    THEN ConcatAll([i \in 1..Len(t.kids) |-> flatten(t.kids[i])])
    ELSE <<t.val>>

RECURSIVE Prod(_)
Prod(s) == IF s = <<>> THEN 1 ELSE Head(s) * Prod(Tail(s))

RECURSIVE Sum(_)
Sum(s) == IF s = <<>> THEN 0 ELSE Head(s) + Sum(Tail(s))

\* ---------------------------------------------------------------- Layout
MeshLayout(shape, stride) == [shape |-> shape, stride |-> stride]
NoLayout == MeshLayout(None_, None_)

\* __post_init__: both trees are ints or tuples, and two tuples have the
\* same flattened length.
post_init(shape, stride) ==
    IF ~is_tuple(shape) /\ ~is_int(shape) THEN "TypeError"
    ELSE IF ~is_tuple(stride) /\ ~is_int(stride) THEN "TypeError"
    ELSE IF is_tuple(shape) /\ is_tuple(stride)
            /\ Len(flatten(shape)) # Len(flatten(stride)) THEN "ValueError"
    ELSE "ok"

sizes(L) == L.shape
strides(L) == L.stride

\* sizes_and_strides: zip of the two flattened trees, as <<size, stride>>.
sizes_and_strides(L) ==
    The({[i \in 1..(IF Len(fs) < Len(fd) THEN Len(fs) ELSE Len(fd)) |-> <<fs[i], fd[i]>>]
            \o <<>> : fs \in {flatten(L.shape)}, fd \in {flatten(L.stride)}})

numel(L) == Prod(flatten(L.shape))

\* ----------------------------------------------------------- member_ranks
\* range(s)
Range(s) == [i \in 1..s |-> i - 1]

\* itertools.product(*ranges): every coordinate, the leftmost one slowest.
RECURSIVE product(_)
product(ranges) ==
    IF ranges = <<>> THEN << <<>> >>
    ELSE The({ConcatAll([i \in 1..Len(h) |->
                            [j \in 1..Len(rest) |-> <<h[i]>> \o rest[j]]])
                 : h \in {Head(ranges)}, rest \in {product(Tail(ranges))}})

\* sum(c * s for c, s in zip(coord, strides))
Dot(coord, strd) ==
    Sum([i \in 1..(IF Len(coord) < Len(strd) THEN Len(coord) ELSE Len(strd)) |->
            coord[i] * strd[i]])

\* A plausible slip: the coordinates enumerated with the leftmost one fastest.
RECURSIVE product_colex(_)
product_colex(ranges) ==
    IF ranges = <<>> THEN << <<>> >>
    ELSE The({ConcatAll([j \in 1..Len(rest) |->
                            [i \in 1..Len(h) |-> <<h[i]>> \o rest[j]]])
                 : h \in {Head(ranges)}, rest \in {product_colex(Tail(ranges))}})

Ranges(fs) == [i \in 1..Len(fs) |-> Range(fs[i])] \o <<>>

member_ranks_colex(L) ==
    The({[n \in 1..Len(coords) |-> Dot(coords[n], fd)] \o <<>>
            : coords \in {product_colex(Ranges(flatten(sizes(L))))},
              fd \in {flatten(strides(L))}})

member_ranks(L) ==
    The({[n \in 1..Len(coords) |-> Dot(coords[n], fd)] \o <<>>
            : coords \in {product(Ranges(flatten(sizes(L))))},
              fd \in {flatten(strides(L))}})

\* --------------------------------------------------------------- coalesce
Size(d) == d[1]
Stride(d) == d[2]

DropOnes(dims) == SelectSeq(dims, LAMBDA d : Size(d) # 1)

\* Two adjacent dimensions merge when the inner (right) one's size * stride
\* equals the outer (left) one's stride: (3,2):(2,1) -> 6:1.
Mergeable(dims, i) == Size(dims[i + 1]) * Stride(dims[i + 1]) = Stride(dims[i])

MergeAt(dims, i) ==
    [j \in 1..Len(dims) - 1 |->
        IF j < i THEN dims[j]
        ELSE IF j = i THEN <<Size(dims[i]) * Size(dims[i + 1]), Stride(dims[i + 1])>>
        ELSE dims[j + 1]] \o <<>>

\* The leftmost mergeable pair is merged, until there is none.
RECURSIVE MergeAll(_)
MergeAll(dims) ==
    The({IF I = {} THEN d
         ELSE MergeAll(MergeAt(d, CHOOSE i \in I : \A j \in I : i <= j))
            : <<d, I>> \in {<<dd, {i \in 1..Len(dd) - 1 : Mergeable(dd, i)}>>
                               : dd \in {dims}}})

\* A layout from flattened dimensions: a single leaf for one dimension,
\* a flat tuple otherwise.
FromDims(dims) ==
    IF Len(dims) = 1
    THEN MeshLayout(Int_(Size(dims[1])), Int_(Stride(dims[1])))
    ELSE MeshLayout(Tuple_([i \in 1..Len(dims) |-> Int_(Size(dims[i]))]),
                    Tuple_([i \in 1..Len(dims) |-> Int_(Stride(dims[i]))]))

\* pycute's coalesce: size-1 dimensions are dropped, the rest merged until
\* no merge applies; when nothing is left the result is the leaf 1:1.
pycute_coalesce(L) ==
    The({IF dims = <<>> THEN MeshLayout(Int_(numel(L)), Int_(1)) ELSE FromDims(dims)
            : dims \in {MergeAll(DropOnes(sizes_and_strides(L)))}})

\* A plausible slip: the result rebuilt with shape and stride exchanged.
coalesce_swapped(L) ==
    The({MeshLayout(l.stride, l.shape) : l \in {pycute_coalesce(L)}})

\* _MeshLayout.coalesce
coalesce(L) ==
    The({MeshLayout(l.shape, l.stride) : l \in {pycute_coalesce(L)}})

\* ------------------------------------------------------ check_non_overlap
\* sorted(..., key=lambda x: x[1]): stable, ascending by stride.
RECURSIVE InsertByStride(_, _)
InsertByStride(x, s) ==
    IF s = <<>> THEN <<x>>
    ELSE IF Stride(Head(s)) >= Stride(x) THEN <<x>> \o s
    ELSE <<Head(s)>> \o InsertByStride(x, Tail(s))

RECURSIVE sorted_by_stride(_)
sorted_by_stride(s) ==
    IF s = <<>> THEN <<>>
    ELSE The({InsertByStride(Head(s), rest) : rest \in {sorted_by_stride(Tail(s))}})

\* The loop of check_non_overlap over the sorted pairs.
RECURSIVE non_overlap_loop(_, _, _)
non_overlap_loop(s, previous_span, previous_stride) ==
    IF s = <<>> THEN TRUE
    ELSE LET size == Size(Head(s))
             stride == Stride(Head(s))
         IN IF size = 1 THEN non_overlap_loop(Tail(s), previous_span, previous_stride)
            ELSE IF previous_stride = stride \/ stride < previous_span THEN FALSE
            ELSE non_overlap_loop(Tail(s), size * stride, stride)

\* A plausible slip: the span test made strict the other way (<=), so that
\* a stride equal to the previous span is rejected.
RECURSIVE non_overlap_loop_le(_, _, _)
non_overlap_loop_le(s, previous_span, previous_stride) ==
    IF s = <<>> THEN TRUE
    ELSE LET size == Size(Head(s))
             stride == Stride(Head(s))
         IN IF size = 1 THEN non_overlap_loop_le(Tail(s), previous_span, previous_stride)
            ELSE IF previous_stride = stride \/ stride <= previous_span THEN FALSE
            ELSE non_overlap_loop_le(Tail(s), size * stride, stride)

check_non_overlap_le(L) ==
    \E s \in {sorted_by_stride(sizes_and_strides(L))} : non_overlap_loop_le(s, -1, -1)

check_non_overlap(L) ==
    \E s \in {sorted_by_stride(sizes_and_strides(L))} : non_overlap_loop(s, -1, -1)

\* ------------------------------------------------------------- complement
Raised(e) == [err |-> e, layout |-> NoLayout]
Returned(l) == [err |-> "ok", layout |-> l]

HasDuplicates(s) == Cardinality({s[i] : i \in 1..Len(s)}) # Len(s)

\* The dimensions complement walks: size-1 dimensions contribute nothing,
\* the rest in ascending stride order.
walked(L) == sorted_by_stride(DropOnes(sizes_and_strides(L)))

Span(d) == Size(d) * Stride(d)

\* The span covered before the i-th walked dimension.
boundary(w, i) == IF i = 1 THEN 1 ELSE Span(w[i - 1])

\* The span covered by all walked dimensions.
total_span(L) == The({boundary(w, Len(w) + 1) : w \in {walked(L)}})

\* pycute's complement: one dimension per gap between consecutive covered
\* spans (stride = the boundary, size = stride of the next dimension divided
\* by the boundary), plus a final dimension world_size / total span with the
\* total span as stride; outermost dimension first.
gap_dims(w) ==
    SelectSeq([i \in 1..Len(w) |->
                  <<IF boundary(w, i) = 0 THEN 0 ELSE Stride(w[i]) \div boundary(w, i),
                    boundary(w, i)>>],
              LAMBDA g : Size(g) # 1)

Reverse(s) == [i \in 1..Len(s) |-> s[Len(s) + 1 - i]] \o <<>>

pycute_complement(L, max_idx) ==
    The({IF HasDuplicates(member_ranks(L)) THEN Raised("InvalidWorldSize")
         ELSE IF total = 0 \/ max_idx % total # 0 THEN Raised("InvalidWorldSize")
         ELSE IF \E i \in 1..Len(w) : boundary(w, i) = 0 THEN Raised("ZeroDivisionError")
         ELSE The({Returned(MeshLayout(
                       Tuple_([i \in 1..Len(dims) |-> Int_(Size(dims[i]))] \o <<>>),
                       Tuple_([i \in 1..Len(dims) |-> Int_(Stride(dims[i]))] \o <<>>)))
                     : dims \in {<< <<max_idx \div total, total>> >>
                                    \o Reverse(gap_dims(w))}})
            : <<w, total>> \in {<<ww, boundary(ww, Len(ww) + 1)>> : ww \in {walked(L)}}})

\* A plausible slip: the error of the borrowed function swallowed and the
\* layout itself returned in its place.
complement_swallow(L, world_size_) ==
    The({IF r.err # "ok" THEN Returned(L)
         ELSE Returned(MeshLayout(r.layout.shape, r.layout.stride))
            : r \in {pycute_complement(L, world_size_)}})

\* A plausible slip: the result rebuilt with shape and stride exchanged.
complement_swapped(L, world_size_) ==
    The({IF r.err # "ok" THEN r
         ELSE Returned(MeshLayout(r.layout.stride, r.layout.shape))
            : r \in {pycute_complement(L, world_size_)}})

\* _MeshLayout.complement
complement(L, world_size_) ==
    The({IF r.err # "ok" THEN r
         ELSE Returned(MeshLayout(r.layout.shape, r.layout.stride))
            : r \in {pycute_complement(L, world_size_)}})

\* ----------------------------------------------------------- global_ranks
\* A plausible slip: the two comprehensions nested the other way round.
global_ranks_transposed(L, world_size_) ==
    The({IF c.err # "ok" THEN [err |-> c.err, groups |-> <<>>]
         ELSE The({[err |-> "ok",
                    groups |-> [j \in 1..Len(ranks) |->
                                   [g \in 1..Len(offsets) |-> offsets[g] + ranks[j]]]]
                     : ranks \in {member_ranks(L)}, offsets \in {member_ranks(c.layout)}})
            : c \in {complement(L, world_size_)}})

\* A plausible slip: the group offset left out of the sum.
global_ranks_no_offset(L, world_size_) ==
    The({IF c.err # "ok" THEN [err |-> c.err, groups |-> <<>>]
         ELSE The({[err |-> "ok",
                    groups |-> [g \in 1..Len(offsets) |->
                                   [j \in 1..Len(ranks) |-> ranks[j]]]]
                     : ranks \in {member_ranks(L)}, offsets \in {member_ranks(c.layout)}})
            : c \in {complement(L, world_size_)}})

\* _MeshLayout.global_ranks: one group per element of the complement's
\* member_ranks, each group member_ranks shifted by that offset.
global_ranks(L, world_size_) ==
    The({IF c.err # "ok" THEN [err |-> c.err, groups |-> <<>>]
         ELSE The({[err |-> "ok",
                    groups |-> [g \in 1..Len(offsets) |->
                                   [j \in 1..Len(ranks) |-> offsets[g] + ranks[j]]]]
                     : ranks \in {member_ranks(L)}, offsets \in {member_ranks(c.layout)}})
            : c \in {complement(L, world_size_)}})

\* ------------------------------------------------------------ composition
Min(a, b) == IF a < b THEN a ELSE b
Max(a, b) == IF a < b THEN b ELSE a

\* ceil(a / b) for b > 0.
CeilDiv(a, b) == (a + b - 1) \div b

WalkFailed == [err |-> "CompositionDomainError", rest_shape |-> 0, rest_stride |-> 0,
               dims |-> <<>>]

\* One selector dimension rest_shape:rest_stride (stride > 0, sizes > 0)
\* taken through the dimensions of the coalesced left layout, innermost
\* first: each level must divide the stride or be divided by it, and the
\* part of the size it takes must divide the size; the level contributes a
\* dimension unless that part is 1.  acc holds the result, innermost first.
RECURSIVE compose_walk(_, _, _, _)
compose_walk(inner, rest_shape, rest_stride, acc) ==
    IF inner = <<>>
    THEN [err |-> "ok", rest_shape |-> rest_shape, rest_stride |-> rest_stride,
          dims |-> acc]
    ELSE The({IF curr_shape % rest_stride # 0 /\ rest_stride % curr_shape # 0
              THEN WalkFailed
              ELSE The({IF rest_shape % new_shape # 0 THEN WalkFailed
                        ELSE compose_walk(Tail(inner), rest_shape \div new_shape,
                                 CeilDiv(rest_stride, curr_shape),
                                 IF new_shape # 1
                                 THEN acc \o << <<new_shape, rest_stride * curr_stride>> >>
                                 ELSE acc)
                          : new_shape \in {Min(Max(1, curr_shape \div rest_stride),
                                               rest_shape)}})
                : <<curr_shape, curr_stride>> \in {Head(inner)}})

\* The left layout composed with one selector dimension s:d.  A stride of 0
\* selects rank 0 s times; otherwise the walk runs over all levels but the
\* outermost, which takes what is left of the size.
compose_dim(A, s, d) ==
    IF d = 0 THEN Returned(MeshLayout(Int_(s), Int_(0)))
    ELSE The({IF w.err # "ok" THEN Raised(w.err)
              ELSE Returned(FromDims(Reverse(
                       IF w.rest_shape # 1 \/ w.dims = <<>>
                       THEN w.dims \o << <<w.rest_shape,
                                            w.rest_stride * Stride(flat_A[1])>> >>
                       ELSE w.dims)))
                : <<flat_A, w>> \in
                    {<<fa, compose_walk(Reverse(Tail(fa)), s, d, <<>>)>>
                        : fa \in {sizes_and_strides(pycute_coalesce(A))}}})

\* pycute's composition, dimension by dimension: a selector with a tuple
\* shape is composed child by child and the results are put side by side.
RECURSIVE pycute_composition(_, _)
pycute_composition(A, B) ==
    IF is_tuple(B.shape)
    THEN The({IF \E i \in 1..Len(parts) : parts[i].err # "ok"
              THEN Raised("CompositionDomainError")
              ELSE Returned(MeshLayout(
                       Tuple_([i \in 1..Len(parts) |-> parts[i].layout.shape] \o <<>>),
                       Tuple_([i \in 1..Len(parts) |-> parts[i].layout.stride] \o <<>>)))
                : parts \in
                    {[i \in 1..Len(B.shape.kids) |->
                         pycute_composition(A, MeshLayout(B.shape.kids[i],
                                                          B.stride.kids[i]))] \o <<>>}})
    ELSE compose_dim(A, B.shape.val, B.stride.val)

\* A plausible slip: the error of the borrowed function swallowed and the
\* selector returned as an approximation.
composition_swallow(L, layout_) ==
    The({IF r.err # "ok" THEN Returned(layout_)
         ELSE Returned(MeshLayout(r.layout.shape, r.layout.stride))
            : r \in {pycute_composition(L, layout_)}})

\* _MeshLayout.composition
composition(L, layout_) ==
    The({IF r.err # "ok" THEN r
         ELSE Returned(MeshLayout(r.layout.shape, r.layout.stride))
            : r \in {pycute_composition(L, layout_)}})

\* ------------------------------------------------------------ __getitem__
\* The top-level children of an IntTuple; an int is its own only child.
TopLevel(t) == IF is_tuple(t) THEN t.kids ELSE <<t>>

\* pycute's Layout.__getitem__: the layout of the i-th top-level child of
\* shape and stride, for i from 0 to the number of children - 1.
pycute_getitem(L, i) ==
    IF i \in 0..Len(TopLevel(L.shape)) - 1
    THEN Returned(MeshLayout(TopLevel(L.shape)[i + 1], TopLevel(L.stride)[i + 1]))
    ELSE Raised("IndexOutOfRange")

\* A plausible slip: the result rebuilt with shape and stride exchanged.
getitem_swapped(L, i) ==
    The({IF r.err # "ok" THEN r
         ELSE Returned(MeshLayout(r.layout.stride, r.layout.shape))
            : r \in {pycute_getitem(L, i)}})

\* _MeshLayout.__getitem__
getitem(L, i) ==
    The({IF r.err # "ok" THEN r
         ELSE Returned(MeshLayout(r.layout.shape, r.layout.stride))
            : r \in {pycute_getitem(L, i)}})

\* ---------------------------------------------------- to_remapping_tensor
\* The mesh tensor is held flattened, as original_mesh_tensor.flatten(): the
\* method reads it only through flatten() and numel().  A tensor made of
\* rank groups and viewed as (-1, *sizes) is held as the sequence of its
\* rows, each row flattened: a group per row, in row-major order.
NoTensor(e) == [err |-> e, tensor |-> <<>>]

\* scale_stride: every stride leaf not below scale is floor-divided by it.
RECURSIVE scale_stride(_, _)
scale_stride(scale, strides_) ==
    IF is_int(strides_)
    THEN Int_(IF strides_.val < scale THEN strides_.val ELSE strides_.val \div scale)
    ELSE Tuple_([i \in 1..Len(strides_.kids) |->
                    scale_stride(scale, strides_.kids[i])] \o <<>>)

\* tensor.sort().values, ascending.
RECURSIVE InsertValue(_, _)
InsertValue(x, s) ==
    IF s = <<>> THEN <<x>>
    ELSE IF Head(s) >= x THEN <<x>> \o s
    ELSE <<Head(s)>> \o InsertValue(x, Tail(s))

RECURSIVE sort_values(_)
sort_values(s) ==
    IF s = <<>> THEN <<>>
    ELSE The({InsertValue(Head(s), rest) : rest \in {sort_values(Tail(s))}})

\* torch.equal(mesh.flatten().sort().values, torch.arange(mesh.numel()))
is_arange(flat_mesh) == sort_values(flat_mesh) = Range(Len(flat_mesh))

\* flat_mesh[tensor]: every entry of tensor replaced by the mesh value at
\* that index; an index outside the mesh raises.
index_select(flat_mesh, tensor) ==
    IF \E g \in 1..Len(tensor) : \E j \in 1..Len(tensor[g]) :
          tensor[g][j] < 0 \/ tensor[g][j] >= Len(flat_mesh)
    THEN NoTensor("IndexError")
    ELSE [err |-> "ok",
          tensor |-> [g \in 1..Len(tensor) |->
                         [j \in 1..Len(tensor[g]) |-> flat_mesh[tensor[g][j] + 1]]
                            \o <<>>] \o <<>>]

\* A plausible slip: the ranks of the scaled layout generated for the whole
\* world instead of for the mesh's number of elements.
remap_scaled_world(L, flat_mesh, world_size_) ==
    The({IF scale_factor = 0 /\ flatten(strides(L)) # <<>>
         THEN NoTensor("ZeroDivisionError")
         ELSE The({IF r.err # "ok" THEN NoTensor(r.err)
                   ELSE index_select(flat_mesh, r.groups)
                     : r \in {global_ranks(
                                 MeshLayout(sizes(L),
                                            scale_stride(scale_factor, strides(L))),
                                 world_size_)}})
            : scale_factor \in {world_size_ \div Len(flat_mesh)}})

\* The partial-world branch: the strides scaled by world_size // numel, the
\* ranks of the scaled layout looked up in the mesh.  A scale of 0 divides
\* the first stride leaf by zero.
remap_scaled(L, flat_mesh, world_size_) ==
    The({IF scale_factor = 0 /\ flatten(strides(L)) # <<>>
         THEN NoTensor("ZeroDivisionError")
         ELSE The({IF post_init(sizes(L), scaled_strides) # "ok"
                   THEN NoTensor(post_init(sizes(L), scaled_strides))
                   ELSE The({IF r.err # "ok" THEN NoTensor(r.err)
                             ELSE index_select(flat_mesh, r.groups)
                               : r \in {global_ranks(MeshLayout(sizes(L), scaled_strides),
                                                     Len(flat_mesh))}})
                     : scaled_strides \in {scale_stride(scale_factor, strides(L))}})
            : scale_factor \in {world_size_ \div Len(flat_mesh)}})

\* A plausible slip: the early return for consecutive meshes left out, so
\* that the mesh is always looked up.
to_remapping_tensor_lookup(L, flat_mesh, world_size_) ==
    The({IF r.err # "ok" THEN NoTensor(r.err)
         ELSE IF Len(flat_mesh) # world_size_
         THEN remap_scaled(L, flat_mesh, world_size_)
         ELSE index_select(flat_mesh, r.groups)
            : r \in {global_ranks(L, Len(flat_mesh))}})

\* A plausible slip: the logical groups returned for every mesh, the final
\* lookup left out.
to_remapping_tensor_logical(L, flat_mesh, world_size_) ==
    The({IF r.err # "ok" THEN NoTensor(r.err)
         ELSE [err |-> "ok", tensor |-> r.groups]
            : r \in {global_ranks(L, Len(flat_mesh))}})

\* _MeshLayout.to_remapping_tensor
to_remapping_tensor(L, flat_mesh, world_size_) ==
    The({IF r.err # "ok" THEN NoTensor(r.err)
         ELSE IF is_arange(flat_mesh) THEN [err |-> "ok", tensor |-> r.groups]
         ELSE IF Len(flat_mesh) # world_size_
         THEN remap_scaled(L, flat_mesh, world_size_)
         ELSE index_select(flat_mesh, r.groups)
            : r \in {global_ranks(L, Len(flat_mesh))}})

\* ------------------------------------------------------------------ inputs
Sizes == 0..MaxSize
Strides == 0..MaxStride
WorldSizes == 1..MaxWorld

\* The flattened (size, stride) pairs of a layout under test.
DimSeqs == UNION {[1..k -> Sizes \X Strides] : k \in 0..MaxDims}

\* How the leaves are nested: a bare int, a flat tuple, a one-element tuple
\* wrapped in another, or the first leaf followed by a tuple of the rest.
Nestings(k) ==
    {"flat"} \cup (IF k = 1 THEN {"int"} ELSE {})
             \cup (IF k = 1 THEN {"wrapped"} ELSE {})
             \cup (IF k = 2 THEN {"split"} ELSE {})

Tree(leaves, nest) ==
    LET flat == Tuple_([i \in 1..Len(leaves) |-> Int_(leaves[i])])
    IN CASE nest = "int" -> Int_(leaves[1])
         [] nest = "flat" -> flat
         [] nest = "wrapped" -> Tuple_(<<flat>>)
         [] nest = "split" ->
              Tuple_(<<Int_(leaves[1]),
                       Tuple_([i \in 1..Len(leaves) - 1 |-> Int_(leaves[i + 1])])>>)

Build(dims, nest) ==
    MeshLayout(Tree([i \in 1..Len(dims) |-> dims[i][1]], nest),
               Tree([i \in 1..Len(dims) |-> dims[i][2]], nest))

Flat(ss, dd) == MeshLayout(Tuple_([i \in 1..Len(ss) |-> Int_(ss[i])]),
                           Tuple_([i \in 1..Len(dd) |-> Int_(dd[i])]))
Leaf(s, d) == MeshLayout(Int_(s), Int_(d))

\* The layouts and world sizes of the docstring examples of coalesce,
\* complement, member_ranks, global_ranks and check_non_overlap.
DocLayouts ==
    {Flat(<<3, 2>>, <<2, 1>>), Flat(<<3, 2>>, <<4, 1>>), Leaf(4, 1),
     Flat(<<2, 3>>, <<3, 1>>), Flat(<<2, 3>>, <<1, 2>>),
     Flat(<<2, 3>>, <<6, 1>>), Flat(<<2, 3>>, <<2, 1>>)}
DocWorldSizes == {8, 16}

WorldSizesFor(L) == WorldSizes \cup (IF L \in DocLayouts THEN DocWorldSizes ELSE {})

\* layout is the receiver (self); other, mesh, index and world_size are the
\* arguments of the call op; the ret_ variables and err are its outcome.
VARIABLES layout, other, mesh, index, op, world_size,
          ret_layout, ret_ranks, ret_groups, ret_bool, err
vars == <<layout, other, mesh, index, op, world_size,
          ret_layout, ret_ranks, ret_groups, ret_bool, err>>

\* No layout, mesh tensor or index has been passed.
NoArgs == other = NoLayout /\ mesh = <<>> /\ index = 0

Init ==
    /\ \/ \E d \in DimSeqs : \E n \in Nestings(Len(d)) : layout = Build(d, n)
       \/ layout \in DocLayouts
    /\ post_init(layout.shape, layout.stride) = "ok"
    /\ NoArgs
    /\ op = "new"
    /\ world_size = 0
    /\ ret_layout = NoLayout
    /\ ret_ranks = <<>>
    /\ ret_groups = <<>>
    /\ ret_bool = FALSE
    /\ err = "ok"

MemberRanks ==
    /\ op = "new"
    /\ op' = "member_ranks"
    /\ world_size' = 0
    /\ ret_ranks' = member_ranks(layout)
    /\ ret_layout' = NoLayout
    /\ ret_groups' = <<>>
    /\ ret_bool' = FALSE
    /\ err' = "ok"
    /\ UNCHANGED <<layout, other, mesh, index>>

Coalesce ==
    /\ op = "new"
    /\ op' = "coalesce"
    /\ world_size' = 0
    /\ ret_layout' = coalesce(layout)
    /\ ret_ranks' = <<>>
    /\ ret_groups' = <<>>
    /\ ret_bool' = FALSE
    /\ err' = "ok"
    /\ UNCHANGED <<layout, other, mesh, index>>

Complement ==
    /\ op = "new"
    /\ \E w \in WorldSizesFor(layout) :
        \E r \in {complement(layout, w)} :
           /\ op' = "complement"
           /\ world_size' = w
           /\ ret_layout' = r.layout
           /\ err' = r.err
           /\ ret_ranks' = <<>>
           /\ ret_groups' = <<>>
           /\ ret_bool' = FALSE
           /\ UNCHANGED <<layout, other, mesh, index>>

GlobalRanks ==
    /\ op = "new"
    /\ \E w \in WorldSizesFor(layout) :
        \E r \in {global_ranks(layout, w)} :
           /\ op' = "global_ranks"
           /\ world_size' = w
           /\ ret_groups' = r.groups
           /\ err' = r.err
           /\ ret_layout' = NoLayout
           /\ ret_ranks' = <<>>
           /\ ret_bool' = FALSE
           /\ UNCHANGED <<layout, other, mesh, index>>

CheckNonOverlap ==
    /\ op = "new"
    /\ op' = "check_non_overlap"
    /\ world_size' = 0
    /\ ret_bool' = check_non_overlap(layout)
    /\ ret_layout' = NoLayout
    /\ ret_ranks' = <<>>
    /\ ret_groups' = <<>>
    /\ err' = "ok"
    /\ UNCHANGED <<layout, other, mesh, index>>

\* Every index from -1 to one past the largest number of children.
Indices == -1..MaxDims

GetItem ==
    /\ op = "new"
    /\ \E i \in Indices :
        \E r \in {getitem(layout, i)} :
           /\ op' = "__getitem__"
           /\ index' = i
           /\ ret_layout' = r.layout
           /\ err' = r.err
           /\ world_size' = 0
           /\ ret_ranks' = <<>>
           /\ ret_groups' = <<>>
           /\ ret_bool' = FALSE
           /\ UNCHANGED <<layout, other, mesh>>

Next ==
    \/ GetItem
    \/ MemberRanks
    \/ Coalesce
    \/ Complement
    \/ GlobalRanks
    \/ CheckNonOverlap

Spec == Init /\ [][Next]_vars

\* ------------------------------------------- specification: composition
\* The left layouts: every size positive (composition divides by sizes).
\* The selectors: one dimension of a size up to twice MaxSize (enough to
\* span two levels of the left layout) as a leaf, the selector of the
\* docstring example, and selectors with a tuple shape.
ComposeDimSeqs == UNION {[1..k -> (1..MaxSize) \X Strides] : k \in 1..MaxDims}
DocComposeLayouts == {Flat(<<6, 2>>, <<2, 1>>)}
SelectorDims == (1..2 * MaxSize) \X Strides
DocSelectors ==
    {Leaf(3, 2), Flat(<<3>>, <<2>>), Flat(<<2, 2>>, <<1, 1>>),
     Flat(<<2, 2>>, <<2, 1>>), Flat(<<2, 2>>, <<1, 2>>)}
Selectors == {Build(<<d>>, "int") : d \in SelectorDims} \cup DocSelectors

InitCompose ==
    /\ \/ \E d \in ComposeDimSeqs : \E n \in Nestings(Len(d)) : layout = Build(d, n)
       \/ layout \in DocComposeLayouts
    /\ post_init(layout.shape, layout.stride) = "ok"
    /\ NoArgs
    /\ op = "new"
    /\ world_size = 0
    /\ ret_layout = NoLayout
    /\ ret_ranks = <<>>
    /\ ret_groups = <<>>
    /\ ret_bool = FALSE
    /\ err = "ok"

Composition ==
    /\ op = "new"
    /\ \E B \in Selectors :
        \E r \in {composition(layout, B)} :
           /\ op' = "composition"
           /\ other' = B
           /\ ret_layout' = r.layout
           /\ err' = r.err
           /\ world_size' = 0
           /\ ret_ranks' = <<>>
           /\ ret_groups' = <<>>
           /\ ret_bool' = FALSE
           /\ UNCHANGED <<layout, mesh, index>>

NextCompose == Composition

SpecCompose == InitCompose /\ [][NextCompose]_vars

\* ------------------------------------------ specification: construction
\* The arguments of the constructor before any validation: ints, tuples of
\* ints, such tuples wrapped in another tuple, and a value that is neither
\* an int nor a tuple.
RawLeaves == {Int_(v) : v \in Sizes}
RawTuples == {Tuple_(ks) : ks \in UNION {[1..k -> RawLeaves] : k \in 0..MaxDims}}
RawTrees ==
    RawLeaves \cup RawTuples \cup {Tuple_(<<t>>) : t \in RawTuples}
              \cup {Tuple_(<<Int_(1), t>>) : t \in RawTuples} \cup {None_}

\* layout holds the arguments shape and stride; nothing is constructed yet.
InitNew ==
    /\ \E shape \in RawTrees : \E stride \in RawTrees :
          layout = MeshLayout(shape, stride)
    /\ NoArgs
    /\ op = "args"
    /\ world_size = 0
    /\ ret_layout = NoLayout
    /\ ret_ranks = <<>>
    /\ ret_groups = <<>>
    /\ ret_bool = FALSE
    /\ err = "ok"

\* _MeshLayout(shape, stride): the object exists unless __post_init__ raises.
New ==
    /\ op = "args"
    /\ \E e \in {post_init(layout.shape, layout.stride)} :
          /\ op' = "__init__"
          /\ err' = e
          /\ ret_layout' = IF e = "ok" THEN MeshLayout(layout.shape, layout.stride)
                           ELSE NoLayout
    /\ world_size' = 0
    /\ ret_ranks' = <<>>
    /\ ret_groups' = <<>>
    /\ ret_bool' = FALSE
    /\ UNCHANGED <<layout, other, mesh, index>>

NextNew == New

SpecNew == InitNew /\ [][NextNew]_vars

\* ----------------------------------- specification: to_remapping_tensor
\* The layouts: every size positive, so that the view (-1, *sizes) exists.
\* The meshes, flattened: the ranks 0..n-1 in order and in reverse order,
\* and the custom ranks 10, 20, .. of the docstring.  The world sizes: the
\* mesh size, its double and its quadruple, and one more and one less.
RemapDimSeqs == UNION {[1..k -> (1..MaxSize) \X Strides] : k \in 1..MaxDims}
MeshSizes == 1..(MaxWorld \div 2)
Meshes ==
    UNION {{Range(n), Reverse(Range(n)), [i \in 1..n |-> 10 * i]} : n \in MeshSizes}
WorldSizesForMesh(m) ==
    {Len(m), 2 * Len(m), 4 * Len(m), Len(m) + 1, Len(m) - 1} \cap WorldSizes

InitRemap ==
    /\ \E d \in RemapDimSeqs : \E n \in Nestings(Len(d)) : layout = Build(d, n)
    /\ post_init(layout.shape, layout.stride) = "ok"
    /\ NoArgs
    /\ op = "new"
    /\ world_size = 0
    /\ ret_layout = NoLayout
    /\ ret_ranks = <<>>
    /\ ret_groups = <<>>
    /\ ret_bool = FALSE
    /\ err = "ok"

\* ret_groups holds the returned tensor, row by row.
ToRemappingTensor ==
    /\ op = "new"
    /\ \E m \in Meshes : \E w \in WorldSizesForMesh(m) :
        \E r \in {to_remapping_tensor(layout, m, w)} :
           /\ op' = "to_remapping_tensor"
           /\ mesh' = m
           /\ world_size' = w
           /\ ret_groups' = r.tensor
           /\ err' = r.err
           /\ ret_layout' = NoLayout
           /\ ret_ranks' = <<>>
           /\ ret_bool' = FALSE
           /\ UNCHANGED <<layout, other, index>>

NextRemap == ToRemappingTensor

SpecRemap == InitRemap /\ [][NextRemap]_vars

\* ------------------------------------------------------------- properties
FlatSizes(L) == flatten(L.shape)
FlatStrides(L) == flatten(L.stride)

\* The dimensions of size # 1, in ascending stride order.
Walk(L) == sorted_by_stride(SelectSeq(sizes_and_strides(L), LAMBDA d : d[1] # 1))

\* The largest size * stride over the dimensions of size # 1, or 1.
MaxSpan(L) ==
    LET w == Walk(L)
        S == {w[i][1] * w[i][2] : i \in 1..Len(w)}
    IN IF S = {} THEN 1 ELSE CHOOSE m \in S : \A x \in S : x <= m

PositiveMultiple(n, d) == n > 0 /\ d > 0 /\ n % d = 0

\* sorted(flatten(groups)) == [0 .. n-1]
IsPartition(groups, n) ==
    LET flat == ConcatAll(groups)
    IN /\ Len(flat) = n
       /\ \A r \in 0..n - 1 : Cardinality({i \in 1..Len(flat) : flat[i] = r}) = 1

\* In ascending stride order every stride is a positive multiple of the span
\* of the dimension before it (1 before the first), and no size is 0.
Nested(L) ==
    LET w == Walk(L)
    IN /\ \A i \in 1..Len(FlatSizes(L)) : FlatSizes(L)[i] >= 1
       /\ \A i \in 1..Len(w) :
             /\ w[i][2] >= 1
             /\ w[i][2] % (IF i = 1 THEN 1 ELSE w[i - 1][1] * w[i - 1][2]) = 0

\* C1 as stated: for every layout that passes check_non_overlap and every
\* world_size that is a positive multiple of its largest span, the groups of
\* global_ranks hold every rank 0..world_size-1 exactly once.
C1_RoundTripAnyStride ==
    (op = "global_ranks" /\ check_non_overlap(layout)
        /\ PositiveMultiple(world_size, MaxSpan(layout)))
    => (err = "ok" /\ IsPartition(ret_groups, world_size))

\* C1 amended: the round trip holds when, besides, no size is 0 and in
\* ascending stride order every stride of a dimension of size # 1 is a
\* positive multiple of the span of the dimension before it.
C1_RoundTripNested ==
    (op = "global_ranks" /\ check_non_overlap(layout) /\ Nested(layout)
        /\ PositiveMultiple(world_size, MaxSpan(layout)))
    => (err = "ok" /\ IsPartition(ret_groups, world_size))

C1_Witness ==
    /\ op = "global_ranks" /\ check_non_overlap(layout) /\ Nested(layout)
    /\ PositiveMultiple(world_size, MaxSpan(layout))
    /\ layout = Flat(<<2, 2>>, <<4, 1>>) /\ world_size = 8
    /\ ret_groups = << <<0, 1, 4, 5>>, <<2, 3, 6, 7>> >>

\* C2: coalesce keeps member_ranks: the coalesced layout generates the same
\* ordered sequence of ranks as the layout it was made from.
C2_CoalesceKeepsRanks ==
    op = "coalesce" => member_ranks(ret_layout) = member_ranks(layout)

C2_Witness ==
    /\ op = "coalesce"
    /\ Len(FlatSizes(ret_layout)) < Len(FlatSizes(layout))
    /\ Len(member_ranks(layout)) >= 4

\* C3: coalesce is idempotent: coalescing the result again gives the same
\* shape and the same stride.
C3_CoalesceIdempotent ==
    op = "coalesce" =>
        /\ coalesce(ret_layout).shape = ret_layout.shape
        /\ coalesce(ret_layout).stride = ret_layout.stride

C3_Witness ==
    /\ op = "coalesce"
    /\ ret_layout # layout
    /\ \E i \in 1..Len(FlatSizes(layout)) : FlatSizes(layout)[i] = 1

\* C4: the result of coalesce is a merge fixpoint: unless it is a single
\* leaf it has no dimension of size 1, and no adjacent pair whose inner
\* size * stride equals the outer stride; (3,2):(2,1) gives 6:1 and
\* (3,2):(4,1) comes back unchanged.
C4_CoalesceFixpoint ==
    op = "coalesce" =>
        LET d == sizes_and_strides(ret_layout)
        IN /\ is_int(ret_layout.shape) = is_int(ret_layout.stride)
           /\ is_tuple(ret_layout.shape) => \A i \in 1..Len(d) : d[i][1] # 1
           /\ \A i \in 1..Len(d) - 1 : d[i + 1][1] * d[i + 1][2] # d[i][2]
           /\ layout = Flat(<<3, 2>>, <<2, 1>>) => ret_layout = Leaf(6, 1)
           /\ layout = Flat(<<3, 2>>, <<4, 1>>) => ret_layout = layout

C4_Witness ==
    /\ op = "coalesce"
    /\ layout = Flat(<<3, 2>>, <<2, 1>>)
    /\ ret_layout = Leaf(6, 1)

LexCoord(ss, n) ==
    [i \in 1..Len(ss) |-> (n \div Prod(SubSeq(ss, i + 1, Len(ss)))) % ss[i]]

\* C7: member_ranks has numel() elements, the n-th being the sum of
\* coordinate * stride over the n-th coordinate in lexicographic order,
\* duplicates kept; (2,3):(3,1) gives 0..5 and (2,3):(1,2) gives 0,2,4,1,3,5.
C7_MemberRanksLexicographic ==
    op = "member_ranks" =>
        LET ss == FlatSizes(layout)
            dd == FlatStrides(layout)
        IN /\ Len(ret_ranks) = numel(layout)
           /\ \A n \in 1..Len(ret_ranks) :
                 ret_ranks[n] = Sum([i \in 1..Len(ss) |-> LexCoord(ss, n - 1)[i] * dd[i]])
           /\ layout = Flat(<<2, 3>>, <<3, 1>>) => ret_ranks = <<0, 1, 2, 3, 4, 5>>
           /\ layout = Flat(<<2, 3>>, <<1, 2>>) => ret_ranks = <<0, 2, 4, 1, 3, 5>>

C7_Witness ==
    /\ op = "member_ranks"
    /\ layout = Flat(<<2, 3>>, <<1, 2>>)
    /\ ret_ranks = <<0, 2, 4, 1, 3, 5>>

\* C8: when the complement exists global_ranks has one group per element of
\* the complement, each as long as the layout, the j-th element of the g-th
\* group being the g-th complement rank plus the j-th member rank; 4:1 in a
\* world of 16 gives 0..3, 4..7, 8..11, 12..15.
C8_GlobalRanksStructure ==
    op = "global_ranks" =>
        /\ complement(layout, world_size).err = "ok" =>
              LET c == complement(layout, world_size).layout
                  offsets == member_ranks(c)
                  ranks == member_ranks(layout)
              IN /\ err = "ok"
                 /\ Len(ret_groups) = numel(c)
                 /\ \A g \in 1..Len(ret_groups) :
                       /\ Len(ret_groups[g]) = numel(layout)
                       /\ \A j \in 1..Len(ret_groups[g]) :
                             ret_groups[g][j] = offsets[g] + ranks[j]
        /\ (layout = Leaf(4, 1) /\ world_size = 16) =>
              ret_groups = << <<0, 1, 2, 3>>, <<4, 5, 6, 7>>,
                              <<8, 9, 10, 11>>, <<12, 13, 14, 15>> >>

C8_Witness ==
    /\ op = "global_ranks" /\ err = "ok"
    /\ layout = Leaf(4, 1) /\ world_size = 16
    /\ Len(ret_groups) = 4 /\ ret_groups[4] = <<12, 13, 14, 15>>

\* C9: check_non_overlap returns false exactly when, over the dimensions of
\* size # 1 in ascending stride order, some stride equals the stride before
\* it or is less than the span before it; (2,3):(6,1) gives true and
\* (2,3):(2,1) gives false.
C9_NonOverlapRule ==
    op = "check_non_overlap" =>
        LET w == Walk(layout)
        IN /\ ret_bool = ~(\E i \in 2..Len(w) :
                              \/ w[i][2] = w[i - 1][2]
                              \/ w[i][2] < w[i - 1][1] * w[i - 1][2])
           /\ layout = Flat(<<2, 3>>, <<6, 1>>) => ret_bool
           /\ layout = Flat(<<2, 3>>, <<2, 1>>) => ~ret_bool

C9_Witness ==
    /\ op = "check_non_overlap" /\ ret_bool
    /\ Len(Walk(layout)) = 2
    /\ Walk(layout)[2][2] = Walk(layout)[1][1] * Walk(layout)[1][2]

\* C10: whenever member_ranks holds the same rank at two positions,
\* check_non_overlap returns False.
C10_NonOverlapDetectsDuplicates ==
    (op = "check_non_overlap" /\ HasDuplicates(member_ranks(layout))) => ~ret_bool

\* C11: whenever the ranks of member_ranks are pairwise distinct,
\* check_non_overlap returns True.
C11_NonOverlapAcceptsDistinct ==
    (op = "check_non_overlap" /\ ~HasDuplicates(member_ranks(layout))) => ret_bool

\* [R(n) = A(B(n))]: R has as many ranks as B, and wherever B's n-th rank
\* lies inside A, R's n-th rank is A's rank at that position.
ComposesAs(R, A, B) ==
    \E ra \in {member_ranks(A)} : \E rb \in {member_ranks(B)} :
    \E rr \in {member_ranks(R)} :
       /\ numel(R) = numel(B)
       /\ \A n \in 1..Len(rb) :
             rb[n] < numel(A) => n <= Len(rr) /\ rr[n] = ra[rb[n] + 1]

\* C12: whenever A.composition(B) succeeds with R, R.numel() = B.numel() and
\* R.member_ranks()[n] = A.member_ranks()[B.member_ranks()[n]] for every n
\* whose B rank is below A.numel(); (6,2):(2,1) composed with 3:2 is 3:2.
C12_CompositionIsFunctionComposition ==
    (op = "composition" /\ err = "ok") =>
        /\ ComposesAs(ret_layout, layout, other)
        /\ (layout = Flat(<<6, 2>>, <<2, 1>>) /\ other = Leaf(3, 2)) =>
              ret_layout = Leaf(3, 2)

\* The sizes of the levels a selector dimension is taken through: those of
\* the coalesced layout, innermost first, without the outermost.
Levels(A) ==
    The({[j \in 1..Len(fa) - 1 |-> Size(fa[Len(fa) + 1 - j])] \o <<>>
            : fa \in {sizes_and_strides(pycute_coalesce(A))}})

\* The selector dimension s:d does not evenly divide into the levels c: at
\* some level j the stride that reaches it, ceil(d / (c[1] * .. * c[j-1])),
\* neither divides c[j] nor is divided by it, or the part of the size that
\* the level takes does not divide the size that reaches it.
NotDivisible(c, s, d) ==
    LET reach[j \in 1..Len(c)] == CeilDiv(d, Prod(SubSeq(c, 1, j - 1)))
        take(j, rest) == Min(Max(1, c[j] \div reach[j]), rest)
        rest[j \in 1..Len(c)] ==
            IF j = 1 THEN s ELSE rest[j - 1] \div take(j - 1, rest[j - 1])
    IN d # 0 /\ \E j \in 1..Len(c) :
          \/ c[j] % reach[j] # 0 /\ reach[j] % c[j] # 0
          \/ rest[j] % take(j, rest[j]) # 0

RECURSIVE SameTree(_, _)
SameTree(a, b) ==
    \/ is_int(a) /\ is_int(b)
    \/ /\ is_tuple(a) /\ is_tuple(b)
       /\ Len(a.kids) = Len(b.kids)
       /\ \A i \in 1..Len(a.kids) : SameTree(a.kids[i], b.kids[i])

\* C14: construction fails with ShapeMismatch (ValueError) and yields no
\* layout whenever the size tree and the stride tree differ in tree shape or
\* in flattened length, int-versus-tuple pairs included.
C14_ConstructionRejectsMismatch ==
    (/\ op = "__init__"
     /\ is_int(layout.shape) \/ is_tuple(layout.shape)
     /\ is_int(layout.stride) \/ is_tuple(layout.stride)
     /\ ~SameTree(layout.shape, layout.stride))
    => err = "ValueError" /\ ret_layout = NoLayout

Consecutive(m) == {m[i] : i \in 1..Len(m)} = 0..(Len(m) - 1)

\* C15: on a mesh holding 0..n-1 in any order, with world_size = n, the
\* result is the dense array of global_ranks(n), without any lookup in the
\* mesh; mesh [[0,1],[2,3]], world_size 4 and 2:2 give [[0,2],[1,3]].
C15_ConsecutiveFullWorld ==
    (op = "to_remapping_tensor" /\ Consecutive(mesh) /\ world_size = Len(mesh)) =>
        /\ err = global_ranks(layout, Len(mesh)).err
        /\ ret_groups = global_ranks(layout, Len(mesh)).groups
        /\ (layout = Leaf(2, 2) /\ Len(mesh) = 4) =>
              err = "ok" /\ ret_groups = << <<0, 2>>, <<1, 3>> >>

C15_Witness ==
    /\ op = "to_remapping_tensor" /\ err = "ok"
    /\ layout = Leaf(2, 2) /\ mesh = <<3, 2, 1, 0>> /\ world_size = 4
    /\ ret_groups = << <<0, 2>>, <<1, 3>> >>

\* What the partial-world rule gives: the strides scaled by k, the ranks
\* global_ranks(n) of the scaled layout, each looked up in the mesh.
ScaledLookup(L, m, k) ==
    The({IF r.err # "ok" THEN NoTensor(r.err) ELSE index_select(m, r.groups)
            : r \in {global_ranks(MeshLayout(sizes(L), scale_stride(k, strides(L))),
                                  Len(m))}})

\* C16: with world_size = k * n for k > 1 the result is the lookup in the
\* flattened mesh of global_ranks(n) of the layout with strides scaled by k,
\* for consecutive meshes too; mesh [[0,1]], world_size 8 and (2,):(4,)
\* give [[0,1]].
C16_PartialWorldScaled ==
    (/\ op = "to_remapping_tensor"
     /\ world_size > Len(mesh) /\ world_size % Len(mesh) = 0) =>
        /\ ScaledLookup(layout, mesh, world_size \div Len(mesh)).err = "ok" =>
              /\ err = "ok"
              /\ ret_groups =
                    ScaledLookup(layout, mesh, world_size \div Len(mesh)).tensor
        /\ (layout = Flat(<<2>>, <<4>>) /\ mesh = <<0, 1>> /\ world_size = 8) =>
              err = "ok" /\ ret_groups = << <<0, 1>> >>

\* C17: to_remapping_tensor fails with IncompatibleWorldSize whenever
\* world_size is not an integer multiple of the number of mesh elements.
C17_RejectsIncompatibleWorldSize ==
    (op = "to_remapping_tensor" /\ world_size % Len(mesh) # 0) =>
        err = "IncompatibleWorldSize" /\ ret_groups = <<>>

\* C18: on a mesh that does not hold exactly 0..n-1, with world_size = n,
\* the result has the form of the dense array of global_ranks(n) and every
\* entry is the flattened mesh's value at the index found there; mesh
\* [[10,20],[30,40]], world_size 4 and 2:2 give [[10,30],[20,40]].
C18_LookupFullWorld ==
    (/\ op = "to_remapping_tensor"
     /\ ~Consecutive(mesh) /\ world_size = Len(mesh)
     /\ global_ranks(layout, Len(mesh)).err = "ok") =>
        \E gr \in {global_ranks(layout, Len(mesh)).groups} :
           /\ err = "ok"
           /\ Len(ret_groups) = Len(gr)
           /\ \A g \in 1..Len(gr) :
                 /\ Len(ret_groups[g]) = Len(gr[g])
                 /\ \A j \in 1..Len(gr[g]) : ret_groups[g][j] = mesh[gr[g][j] + 1]
           /\ (layout = Leaf(2, 2) /\ mesh = <<10, 20, 30, 40>>) =>
                 ret_groups = << <<10, 30>>, <<20, 40>> >>

C18_Witness ==
    /\ op = "to_remapping_tensor" /\ err = "ok"
    /\ layout = Leaf(2, 2) /\ mesh = <<10, 20, 30, 40>> /\ world_size = 4
    /\ ret_groups = << <<10, 30>>, <<20, 40>> >>

\* The layout whose ranks index the mesh in the final lookup: the layout
\* itself when the mesh spans the world, else the one with scaled strides.
GatherLayout(L, m, w) ==
    IF Len(m) = w THEN L
    ELSE MeshLayout(sizes(L), scale_stride(w \div Len(m), strides(L)))

\* The call reaches the final lookup: the first global_ranks succeeded, the
\* mesh is not 0..n-1 rearranged, and the ranks of the layout that indexes
\* the mesh were produced.
ReachesGather(L, m, w) ==
    /\ global_ranks(L, Len(m)).err = "ok"
    /\ ~is_arange(m)
    /\ global_ranks(GatherLayout(L, m, w), Len(m)).err = "ok"

====
